---- MODULE Spec2Model ----
(***************************************************************************)
(* Mini-GPS (TrafficMap.py): a fixed map of places joined by roads, the    *)
(* user events that edit it (block a place or a road, raise or lower a     *)
(* road's traffic weight, pick start and goal) and the A* search that is   *)
(* run on the edited map when SPACE is pressed.                            *)
(*                                                                         *)
(* Numbers.  Road weights and g-scores are integers in the program (the    *)
(* floats 0.0 + int stay exact).  The heuristic is math.hypot, a double;   *)
(* it is modelled in fixed point, heuristic = floor(HScale * sqrt(d2)),    *)
(* and an f-score is HScale * g + heuristic.  For the coordinates of this  *)
(* map HScale = 900 keeps the fractional parts of all heuristic values     *)
(* towards one goal in the order the doubles have, so every comparison of  *)
(* two f-scores comes out as in the program.                               *)
(*                                                                         *)
(* Untitled-1.py is an earlier variant of the same program (another map,   *)
(* no road blocking, no start == goal shortcut); the definitions below     *)
(* follow TrafficMap.py.                                                   *)
(***************************************************************************)
EXTENDS Integers, Sequences, FiniteSets, TLC

VARIABLES weights, blocked_nodes, blocked_edges,
          start_node, goal_node, current_path, path_cost, path_attempted,
          edits, frame

vars == <<weights, blocked_nodes, blocked_edges,
          start_node, goal_node, current_path, path_cost, path_attempted,
          edits, frame>>

graph_vars == <<weights, blocked_nodes, blocked_edges>>

(* ---------------------------------------------------------------- bounds *)
\* number of map-editing events (block toggles, traffic clicks) in one run
MaxEdits == 1
\* number of traffic clicks in one run of the traffic-only specification
MaxClicks == 4

(* ------------------------------------------------------------- constants *)
TRAFFIC_STEP == 50
HScale == 900

\* Python's None for a node, a path and a cost
None == "None"
NonePath == << >>
NoneCost == -1

(* ------------------------------------------------------------------- map *)
nodes ==
  [ Bank     |-> <<100, 100>>,  Cafe     |-> <<350, 120>>,
    Club     |-> <<600, 100>>,  Park     |-> <<900, 130>>,
    Mall     |-> <<1200, 100>>, School   |-> <<150, 300>>,
    Gym      |-> <<450, 280>>,  Market   |-> <<700, 300>>,
    Hospital |-> <<950, 280>>,  Cinema   |-> <<1200, 300>>,
    Library  |-> <<400, 500>>,  Office   |-> <<1000, 500>>,
    Home     |-> <<700, 600>> ]

adjacency ==
  [ Bank     |-> <<"Cafe", "School">>,
    Cafe     |-> <<"Bank", "Club", "Gym">>,
    Club     |-> <<"Cafe", "Park", "Market">>,
    Park     |-> <<"Club", "Mall", "Hospital">>,
    Mall     |-> <<"Park", "Cinema">>,
    School   |-> <<"Bank", "Gym">>,
    Gym      |-> <<"School", "Cafe", "Market", "Library">>,
    Market   |-> <<"Gym", "Club", "Hospital", "Office", "Home">>,
    Hospital |-> <<"Market", "Park", "Cinema">>,
    Cinema   |-> <<"Hospital", "Mall", "Office">>,
    Library  |-> <<"Gym", "Office">>,
    Office   |-> <<"Library", "Cinema", "Market">>,
    Home     |-> <<"Market">> ]

\* the keys of the adjacency dict in insertion order
AdjacencyKeys ==
  <<"Bank", "Cafe", "Club", "Park", "Mall", "School", "Gym", "Market",
    "Hospital", "Cinema", "Library", "Office", "Home">>

Places == DOMAIN nodes

\* Python orders str values by code point; the names of this map in that order
StrOrder ==
  <<"Bank", "Cafe", "Cinema", "Club", "Gym", "Home", "Hospital", "Library",
    "Mall", "Market", "Office", "Park", "School">>

StrRank(s) == CHOOSE i \in 1..Len(StrOrder) : StrOrder[i] = s

StrLess(a, b) == StrRank(a) < StrRank(b)

\* a buggy variant of SortedEdge: the pair as given, not ordered
SortedEdge_AsGiven(a, b) == <<a, b>>

\* tuple(sorted([a, b]))
SortedEdge(a, b) == IF StrLess(b, a) THEN <<b, a>> ELSE <<a, b>>

(* ------------------------------------------------------------- distances *)
RECURSIVE FloorSqrtIn(_, _, _)
\* the largest r in lo..hi with r * r <= a (bisection)
FloorSqrtIn(a, lo, hi) ==
  IF lo >= hi THEN lo
  ELSE LET mid == (lo + hi + 1) \div 2
       IN  IF mid * mid <= a THEN FloorSqrtIn(a, mid, hi)
                             ELSE FloorSqrtIn(a, lo, mid - 1)

FloorSqrt(a) == FloorSqrtIn(a, 0, 2000)

RECURSIVE FracSqrtIn(_, _, _, _)
\* the largest t in lo..hi with (r + t / HScale)^2 <= r * r + rem
FracSqrtIn(r, rem, lo, hi) ==
  IF lo >= hi THEN lo
  ELSE LET mid == (lo + hi + 1) \div 2
       IN  IF 2 * HScale * r * mid + mid * mid <= HScale * HScale * rem
           THEN FracSqrtIn(r, rem, mid, hi)
           ELSE FracSqrtIn(r, rem, lo, mid - 1)

SquaredDistance(node1, node2) ==
  LET dx == nodes[node2][1] - nodes[node1][1]
      dy == nodes[node2][2] - nodes[node1][2]
  IN  dx * dx + dy * dy

\* math.hypot(x2 - x1, y2 - y1), in units of 1 / HScale
euclid_distance(node1, node2) ==
  LET d2 == SquaredDistance(node1, node2)
      r  == FloorSqrt(d2)
  IN  HScale * r + FracSqrtIn(r, d2 - r * r, 0, HScale - 1)

\* int(euclid_distance(n1, n2))
IntDistance(n1, n2) == euclid_distance(n1, n2) \div HScale

\* euclid_distance of every pair of Places (the coordinates never change)
EuclidTable ==
  [node1 \in Places |-> [node2 \in Places |-> euclid_distance(node1, node2)]]

heuristic(node1, node2) == EuclidTable[node1][node2]

(* ----------------------------------------------------------------- dicts *)
EmptyDict == << >>

\* d[k] = v
DictSet(d, k, v) == [x \in (DOMAIN d) \cup {k} |-> IF x = k THEN v ELSE d[x]]

(* ------------------------------------------------- weights construction *)
RECURSIVE BuildWeights(_, _, _)
\* for n1 in adjacency: for n2 in adjacency[n1]: ... ; (i, j) is the position
BuildWeights(w, i, j) ==
  IF i > Len(AdjacencyKeys) THEN w
  ELSE LET n1 == AdjacencyKeys[i]
       IN  IF j > Len(adjacency[n1]) THEN BuildWeights(w, i + 1, 1)
           ELSE LET n2   == adjacency[n1][j]
                    edge == SortedEdge(n1, n2)
                IN  IF edge \notin DOMAIN w
                    THEN BuildWeights(DictSet(w, edge, IntDistance(n1, n2)), i, j + 1)
                    ELSE BuildWeights(w, i, j + 1)

InitialWeights == BuildWeights(EmptyDict, 1, 1)

Roads == DOMAIN InitialWeights

(* -------------------------------------------------------------- A* search *)
\* the graph the search reads: the three mutable globals
Graph(w, bn, be) == [weights |-> w, blocked_nodes |-> bn, blocked_edges |-> be]

\* a buggy variant of EntryLess: entries ordered by f and g only
EntryLess_NoNodeTieBreak(a, b) ==
  \/ a[1] < b[1]
  \/ a[1] = b[1] /\ a[2] < b[2]

\* a heap entry is <<f_score, g_score, node, parent>>;
\* tuple comparison up to the node (two entries never agree on all three)
EntryLess(a, b) ==
  \/ a[1] < b[1]
  \/ a[1] = b[1] /\ a[2] < b[2]
  \/ a[1] = b[1] /\ a[2] = b[2] /\ StrLess(a[3], b[3])

\* the entries heapq.heappop may return: the least ones
MinEntries(open_list) == {e \in open_list : \A o \in open_list : ~EntryLess(o, e)}

HeapPop(open_list) == CHOOSE e \in MinEntries(open_list) : TRUE

RECURSIVE reconstruct_path_NotReversed(_, _)
\* a buggy variant of reconstruct_path: the chain is not reversed
reconstruct_path_NotReversed(cf, current) ==
  IF current = None THEN << >>
  ELSE <<current>> \o reconstruct_path_NotReversed(
                        cf, IF current \in DOMAIN cf THEN cf[current] ELSE None)

RECURSIVE reconstruct_path(_, _)
\* the parent chain from current back to the start, reversed
reconstruct_path(cf, current) ==
  IF current = None THEN << >>
  ELSE Append(reconstruct_path(cf, IF current \in DOMAIN cf THEN cf[current] ELSE None),
              current)

\* the locals of astar after its first lines, before the while loop
AstarEnter(start, goal) ==
  [open_list  |-> {<<heuristic(start, goal), 0, start, None>>},
   came_from  |-> EmptyDict,
   g_score    |-> DictSet(EmptyDict, start, 0),
   closed_set |-> {},
   status     |-> "loop",
   path       |-> NonePath,
   cost       |-> NoneCost]

\* a buggy variant of RelaxNeighbor: blocked Roads are not skipped
RelaxNeighbor_IgnoresBlockedRoad(fr, G, goal, current_node, neighbor) ==
  LET edge == SortedEdge(current_node, neighbor)
  IN  IF \/ neighbor \in fr.closed_set
         \/ neighbor \in G.blocked_nodes
      THEN fr
      ELSE LET tentative_g == fr.g_score[current_node] + G.weights[edge]
           IN  IF \/ neighbor \notin DOMAIN fr.g_score
                  \/ tentative_g < fr.g_score[neighbor]
               THEN [fr EXCEPT
                       !.g_score   = DictSet(@, neighbor, tentative_g),
                       !.open_list = @ \cup {<<HScale * tentative_g + heuristic(neighbor, goal),
                                               tentative_g, neighbor, current_node>>}]
               ELSE fr

\* the body of "for neighbor in adjacency.get(current_node, [])" for one neighbor
RelaxNeighbor(fr, G, goal, current_node, neighbor) ==
  LET edge == SortedEdge(current_node, neighbor)
  IN  IF \/ neighbor \in fr.closed_set
         \/ neighbor \in G.blocked_nodes
         \/ edge \in G.blocked_edges
      THEN fr
      ELSE LET tentative_g == fr.g_score[current_node] + G.weights[edge]
           IN  IF \/ neighbor \notin DOMAIN fr.g_score
                  \/ tentative_g < fr.g_score[neighbor]
               THEN [fr EXCEPT
                       !.g_score   = DictSet(@, neighbor, tentative_g),
                       !.open_list = @ \cup {<<HScale * tentative_g + heuristic(neighbor, goal),
                                               tentative_g, neighbor, current_node>>}]
               ELSE fr

RECURSIVE ExpandNeighbors(_, _, _, _, _)
\* the for loop over the adjacency list, from position i on
\* (the frame after neighbor i is evaluated once, then the loop goes on from it)
ExpandNeighbors(fr, G, goal, current_node, i) ==
  IF i > Len(adjacency[current_node]) THEN fr
  ELSE LET relaxed == {RelaxNeighbor(fr, G, goal, current_node, adjacency[current_node][i])}
       IN  CHOOSE out \in {ExpandNeighbors(next, G, goal, current_node, i + 1) :
                              next \in relaxed} : TRUE

\* a buggy variant of AstarIterate: heappop leaves the popped entry on the open list
AstarIterate_KeepsEntry(fr, G, goal, item) ==
  LET g_current    == item[2]
      current_node == item[3]
      parent_node  == item[4]
      popped       == fr
  IN  IF current_node \in DOMAIN fr.g_score /\ g_current > fr.g_score[current_node]
      THEN popped
      ELSE LET recorded == [popped EXCEPT !.came_from = DictSet(@, current_node, parent_node)]
           IN  IF current_node = goal
               THEN [recorded EXCEPT
                       !.status = "found",
                       !.path   = reconstruct_path(recorded.came_from, current_node),
                       !.cost   = IF goal \in DOMAIN fr.g_score THEN fr.g_score[goal] ELSE NoneCost]
               ELSE ExpandNeighbors([recorded EXCEPT !.closed_set = @ \cup {current_node}],
                                    G, goal, current_node, 1)

\* one pass through the body of "while open_list"
AstarIterate(fr, G, goal, item) ==
  LET g_current    == item[2]
      current_node == item[3]
      parent_node  == item[4]
      popped       == [fr EXCEPT !.open_list = @ \ {item}]
  IN  IF current_node \in DOMAIN fr.g_score /\ g_current > fr.g_score[current_node]
      THEN popped
      ELSE LET recorded == [popped EXCEPT !.came_from = DictSet(@, current_node, parent_node)]
           IN  IF current_node = goal
               THEN [recorded EXCEPT
                       !.status = "found",
                       !.path   = reconstruct_path(recorded.came_from, current_node),
                       !.cost   = IF goal \in DOMAIN fr.g_score THEN fr.g_score[goal] ELSE NoneCost]
               ELSE ExpandNeighbors([recorded EXCEPT !.closed_set = @ \cup {current_node}],
                                    G, goal, current_node, 1)

RECURSIVE AstarLoop(_, _, _)
\* the while loop: runs until the goal is popped or the open list is empty
AstarLoop(fr, G, goal) ==
  IF fr.status # "loop" THEN fr
  ELSE IF fr.open_list = {} THEN [fr EXCEPT !.status = "notfound"]
  ELSE AstarLoop(AstarIterate(fr, G, goal, HeapPop(fr.open_list)), G, goal)

\* the frame of astar while no search is running
NoFrame ==
  [open_list |-> {}, came_from |-> EmptyDict, g_score |-> EmptyDict,
   closed_set |-> {}, status |-> "idle", path |-> NonePath, cost |-> NoneCost]

\* a buggy variant of AstarBegin: a search from a place to itself finds no route
AstarBegin_SelfIsNoRoute(G, start, goal) ==
  IF \/ start = None \/ goal = None
     \/ start \in G.blocked_nodes \/ goal \in G.blocked_nodes
     \/ start = goal
  THEN [NoFrame EXCEPT !.status = "notfound"]
  ELSE AstarEnter(start, goal)

\* astar up to the while loop: the two early returns, or the initial locals
AstarBegin(G, start, goal) ==
  IF \/ start = None \/ goal = None
     \/ start \in G.blocked_nodes \/ goal \in G.blocked_nodes
  THEN [NoFrame EXCEPT !.status = "notfound"]
  ELSE IF start = goal
  THEN [NoFrame EXCEPT !.status = "found", !.path = <<start>>, !.cost = 0]
  ELSE AstarEnter(start, goal)

\* astar(start, goal) on graph G: a record with the path and the cost
\* (NonePath, NoneCost for the return value None, None)
astar(G, start, goal) ==
  LET fr == AstarLoop(AstarBegin(G, start, goal), G, goal)
  IN  [path |-> fr.path, cost |-> fr.cost]

CurrentGraph == Graph(weights, blocked_nodes, blocked_edges)

(* ------------------------------------------------------------ main loop *)
\* a buggy variant of Toggle: the element is added, never removed
Toggle_AddOnly(blocked, x) == blocked \cup {x}

\* blocked ^= {x}
Toggle(blocked, x) == (blocked \ {x}) \cup ({x} \ blocked)

\* a buggy variant of DecreaseWeight: no lower limit
DecreaseWeight_NoClamp(w, clicked_edge) ==
  LET edge_key == SortedEdge(clicked_edge[1], clicked_edge[2])
  IN  [w EXCEPT ![edge_key] = @ - TRAFFIC_STEP]

\* weights[edge_key] = max(1, weights[edge_key] - TRAFFIC_STEP)
DecreaseWeight(w, clicked_edge) ==
  LET edge_key == SortedEdge(clicked_edge[1], clicked_edge[2])
      lowered  == w[edge_key] - TRAFFIC_STEP
  IN  [w EXCEPT ![edge_key] = IF lowered > 1 THEN lowered ELSE 1]

\* a buggy variant of IncreaseWeight: "=" for "+="
IncreaseWeight_Assigns(w, clicked_edge) ==
  LET edge_key == SortedEdge(clicked_edge[1], clicked_edge[2])
  IN  [w EXCEPT ![edge_key] = TRAFFIC_STEP]

\* weights[edge_key] += TRAFFIC_STEP
IncreaseWeight(w, clicked_edge) ==
  LET edge_key == SortedEdge(clicked_edge[1], clicked_edge[2])
  IN  [w EXCEPT ![edge_key] = @ + TRAFFIC_STEP]

\* reset_path()
ResetPath ==
  /\ current_path' = NonePath
  /\ path_cost' = NoneCost
  /\ path_attempted' = FALSE

Init ==
  /\ weights = InitialWeights
  /\ blocked_nodes = {}
  /\ blocked_edges = {}
  /\ start_node = None
  /\ goal_node = None
  /\ current_path = NonePath
  /\ path_cost = NoneCost
  /\ path_attempted = FALSE
  /\ edits = 0
  /\ frame = NoFrame

\* a buggy variant of KeySpace: the search marks its start in blocked_nodes
KeySpace_MarksStart ==
  /\ path_attempted' = TRUE
  /\ LET r == astar(CurrentGraph, start_node, goal_node)
     IN  /\ current_path' = r.path
         /\ path_cost' = r.cost
  /\ blocked_nodes' = blocked_nodes \cup ({start_node} \cap Places)
  /\ UNCHANGED <<weights, blocked_edges, start_node, goal_node, edits, frame>>

\* SPACE
KeySpace ==
  /\ path_attempted' = TRUE
  /\ LET r == astar(CurrentGraph, start_node, goal_node)
     IN  /\ current_path' = r.path
         /\ path_cost' = r.cost
  /\ UNCHANGED <<graph_vars, start_node, goal_node, edits, frame>>

\* R
KeyR ==
  /\ start_node' = None
  /\ goal_node' = None
  /\ ResetPath
  /\ UNCHANGED <<graph_vars, edits, frame>>

\* SHIFT + click on a node
ShiftClickNode ==
  \E clicked_node \in Places :
    /\ edits < MaxEdits
    /\ edits' = edits + 1
    /\ blocked_nodes' = Toggle(blocked_nodes, clicked_node)
    /\ ResetPath
    /\ UNCHANGED <<weights, blocked_edges, start_node, goal_node, frame>>

\* click on a node, button 1
LeftClickNode ==
  \E clicked_node \in Places :
    /\ start_node' = clicked_node
    /\ ResetPath
    /\ UNCHANGED <<graph_vars, goal_node, edits, frame>>

\* click on a node, button 3
RightClickNode ==
  \E clicked_node \in Places :
    /\ goal_node' = clicked_node
    /\ ResetPath
    /\ UNCHANGED <<graph_vars, start_node, edits, frame>>

\* click on a node with any other button (the wheel included)
OtherClickNode ==
  /\ ResetPath
  /\ UNCHANGED <<graph_vars, start_node, goal_node, edits, frame>>

\* a buggy variant of CtrlClickEdge: the stored result is not reset
CtrlClickEdge_KeepsPath ==
  \E clicked_edge \in DOMAIN weights :
    /\ edits < MaxEdits
    /\ edits' = edits + 1
    /\ blocked_edges' = Toggle(blocked_edges, SortedEdge(clicked_edge[1], clicked_edge[2]))
    /\ UNCHANGED <<weights, blocked_nodes, start_node, goal_node, frame,
                   current_path, path_cost, path_attempted>>

\* CTRL + click near an edge
CtrlClickEdge ==
  \E clicked_edge \in DOMAIN weights :
    /\ edits < MaxEdits
    /\ edits' = edits + 1
    /\ blocked_edges' = Toggle(blocked_edges, SortedEdge(clicked_edge[1], clicked_edge[2]))
    /\ ResetPath
    /\ UNCHANGED <<weights, blocked_nodes, start_node, goal_node, frame>>

\* ALT + click near an edge, while fewer than limit edits were made
AltClickEdgeUpTo(limit) ==
  \E clicked_edge \in DOMAIN weights :
    /\ edits < limit
    /\ edits' = edits + 1
    /\ weights' = DecreaseWeight(weights, clicked_edge)
    /\ ResetPath
    /\ UNCHANGED <<blocked_nodes, blocked_edges, start_node, goal_node, frame>>

\* plain click near an edge, while fewer than limit edits were made
ClickEdgeUpTo(limit) ==
  \E clicked_edge \in DOMAIN weights :
    /\ edits < limit
    /\ edits' = edits + 1
    /\ weights' = IncreaseWeight(weights, clicked_edge)
    /\ ResetPath
    /\ UNCHANGED <<blocked_nodes, blocked_edges, start_node, goal_node, frame>>

AltClickEdge == AltClickEdgeUpTo(MaxEdits)

ClickEdge == ClickEdgeUpTo(MaxEdits)

Next ==
  \/ KeySpace
  \/ KeyR
  \/ ShiftClickNode
  \/ LeftClickNode
  \/ RightClickNode
  \/ OtherClickNode
  \/ CtrlClickEdge
  \/ AltClickEdge
  \/ ClickEdge

Spec == Init /\ [][Next]_vars

(* ------------------------------------- the traffic clicks on their own *)
TrafficNext ==
  \/ AltClickEdgeUpTo(MaxClicks)
  \/ ClickEdgeUpTo(MaxClicks)

TrafficSpec == Init /\ [][TrafficNext]_vars

(* ------------------------------------------- the search, step by step *)
\* the graphs one editing event away from G
OneEdit(G) ==
  {Graph(G.weights, Toggle(G.blocked_nodes, n), G.blocked_edges) : n \in Places}
    \cup {Graph(G.weights, G.blocked_nodes,
                Toggle(G.blocked_edges, SortedEdge(e[1], e[2]))) : e \in DOMAIN G.weights}
    \cup {Graph(DecreaseWeight(G.weights, e), G.blocked_nodes, G.blocked_edges) :
             e \in DOMAIN G.weights}
    \cup {Graph(IncreaseWeight(G.weights, e), G.blocked_nodes, G.blocked_edges) :
             e \in DOMAIN G.weights}

RECURSIVE EditedGraphs(_)
\* the graphs at most k editing events away from the initial one
EditedGraphs(k) ==
  IF k = 0 THEN {Graph(InitialWeights, {}, {})}
  ELSE LET S == EditedGraphs(k - 1) IN S \cup UNION {OneEdit(G) : G \in S}

\* SPACE is about to be pressed: any edited graph, any selection
SearchInit ==
  /\ \E G \in EditedGraphs(MaxEdits) :
       /\ weights = G.weights
       /\ blocked_nodes = G.blocked_nodes
       /\ blocked_edges = G.blocked_edges
  /\ start_node \in Places \cup {None}
  /\ goal_node \in Places \cup {None}
  /\ current_path = NonePath
  /\ path_cost = NoneCost
  /\ path_attempted = FALSE
  /\ edits = 0
  /\ frame = NoFrame

\* astar is called: its lines up to the while loop
AstarCall ==
  /\ frame.status = "idle"
  /\ ~path_attempted
  /\ frame' = AstarBegin(CurrentGraph, start_node, goal_node)
  /\ UNCHANGED <<graph_vars, start_node, goal_node, current_path, path_cost,
                 path_attempted, edits>>

\* one pass through the while loop; heappop returns a least entry
AstarPop ==
  /\ frame.status = "loop"
  /\ frame.open_list # {}
  /\ \E item \in MinEntries(frame.open_list) :
       frame' = AstarIterate(frame, CurrentGraph, goal_node, item)
  /\ UNCHANGED <<graph_vars, start_node, goal_node, current_path, path_cost,
                 path_attempted, edits>>

\* the while loop ends on an empty open list
AstarExhausted ==
  /\ frame.status = "loop"
  /\ frame.open_list = {}
  /\ frame' = [frame EXCEPT !.status = "notfound"]
  /\ UNCHANGED <<graph_vars, start_node, goal_node, current_path, path_cost,
                 path_attempted, edits>>

\* astar returns and the main loop stores the result
AstarReturn ==
  /\ frame.status \in {"found", "notfound"}
  /\ path_attempted' = TRUE
  /\ current_path' = frame.path
  /\ path_cost' = frame.cost
  /\ frame' = NoFrame
  /\ UNCHANGED <<graph_vars, start_node, goal_node, edits>>

SearchNext ==
  \/ AstarCall
  \/ AstarPop
  \/ AstarExhausted
  \/ AstarReturn

SearchSpec == SearchInit /\ [][SearchNext]_vars

\* the search as the interpreter runs it: astar is one thread of straight-line
\* code, so a statement that can run does run
SearchFairSpec == SearchInit /\ [][SearchNext]_vars /\ WF_vars(SearchNext)

(* ------------------------------------------------ reference definitions *)
\* a Road of the map that may be driven on graph G: both ends and the Road unblocked
Passable(G, a, b) ==
  /\ SortedEdge(a, b) \in DOMAIN G.weights
  /\ SortedEdge(a, b) \notin G.blocked_edges
  /\ a \notin G.blocked_nodes
  /\ b \notin G.blocked_nodes

RECURSIVE RoutesFrom(_, _, _)
\* every simple route that extends prefix to goal over passable Roads
RoutesFrom(G, prefix, goal) ==
  LET last == prefix[Len(prefix)]
      used == {prefix[i] : i \in 1..Len(prefix)}
  IN  IF last = goal THEN {prefix}
      ELSE UNION {RoutesFrom(G, Append(prefix, n), goal) :
                    n \in {m \in Places \ used : Passable(G, last, m)}}

\* every simple route from start to goal that uses no blocked Place or Road
SimpleRoutes(G, start, goal) ==
  IF start \in G.blocked_nodes \/ goal \in G.blocked_nodes THEN {}
  ELSE RoutesFrom(G, <<start>>, goal)

RECURSIVE RouteWeightFrom(_, _, _)
RouteWeightFrom(G, route, i) ==
  IF i >= Len(route) THEN 0
  ELSE G.weights[SortedEdge(route[i], route[i + 1])] + RouteWeightFrom(G, route, i + 1)

\* the sum of the current weights of the Roads along a route
RouteWeight(G, route) == RouteWeightFrom(G, route, 1)

\* the least element of a non-empty set of numbers
Least(S) == CHOOSE x \in S : \A y \in S : x <= y

\* a search has been run for the selected start and goal and its result is stored
Computed == path_attempted /\ start_node # None /\ goal_node # None

Found == Computed /\ current_path # NonePath

(* ------------------------------------------------------------------ C1 *)
\* C1: whenever a search between two unblocked places returns a route, its
\* cost is the least total weight of any simple route from start to goal
\* over unblocked Places and Roads.
C1_CostIsMinimal ==
  Found =>
    path_cost = Least({RouteWeight(CurrentGraph, r) :
                         r \in SimpleRoutes(CurrentGraph, start_node, goal_node)})

(* ------------------------------------------------------------------ C2 *)
\* C2: a search returns None, None exactly when start or goal is unset,
\* start or goal is a blocked Place, or no route over unblocked Roads and
\* Places joins them; otherwise it returns a path and a cost.
C2_NotFoundExactly ==
  path_attempted =>
    /\ (current_path = NonePath) <=> (path_cost = NoneCost)
    /\ (current_path = NonePath) <=>
         \/ start_node = None
         \/ goal_node = None
         \/ start_node \in blocked_nodes
         \/ goal_node \in blocked_nodes
         \/ SimpleRoutes(CurrentGraph, start_node, goal_node) = {}

\* a search between two selected, unblocked places that no route joins
C2_Witness ==
  /\ Computed
  /\ start_node \notin blocked_nodes
  /\ goal_node \notin blocked_nodes
  /\ SimpleRoutes(CurrentGraph, start_node, goal_node) = {}
  /\ current_path = NonePath

(* ------------------------------------------------------------------ C3 *)
\* C3: a returned path starts at start, ends at goal, repeats no Place, each
\* step is an existing unblocked Road between unblocked Places, and the
\* returned cost is the sum of the current weights along the path.
C3_PathIsValid ==
  Found =>
    /\ Len(current_path) >= 1
    /\ current_path[1] = start_node
    /\ current_path[Len(current_path)] = goal_node
    /\ \A i, j \in 1..Len(current_path) : i # j => current_path[i] # current_path[j]
    /\ \A i \in 1..Len(current_path) : current_path[i] \in Places \ blocked_nodes
    /\ \A i \in 1..(Len(current_path) - 1) :
         /\ SortedEdge(current_path[i], current_path[i + 1]) \in DOMAIN weights
         /\ SortedEdge(current_path[i], current_path[i + 1]) \notin blocked_edges
    /\ path_cost = RouteWeight(CurrentGraph, current_path)

\* a returned path of several Roads on a map with a blocked Road
C3_Witness ==
  /\ Found
  /\ Len(current_path) >= 4
  /\ blocked_edges # {}

(* ------------------------------------------------------------------ C4 *)
PathPlaces(path) == {path[i] : i \in 1..Len(path)}

\* C4: when a Place P is toggled to blocked, the search no longer returns a
\* path through P; toggling P again gives back the blocked set from before
\* the first toggle, and the search then returns what it returned before.
C4_BlockAndRestore ==
  [][ \A P \in Places :
        (P \notin blocked_nodes /\ blocked_nodes' = Toggle(blocked_nodes, P)) =>
          LET before   == astar(CurrentGraph, start_node, goal_node)
              after    == astar(Graph(weights', blocked_nodes', blocked_edges'),
                                start_node', goal_node')
              restored == Toggle(blocked_nodes', P)
          IN  /\ P \notin PathPlaces(after.path)
              /\ restored = blocked_nodes
              /\ astar(Graph(weights', restored, blocked_edges'),
                       start_node', goal_node') = before ]_vars

\* a Place is blocked that the route found without the block passes through,
\* and a route around it has been found
C4_Witness ==
  /\ Found
  /\ \E P \in blocked_nodes :
       P \in PathPlaces(astar(Graph(weights, Toggle(blocked_nodes, P), blocked_edges),
                              start_node, goal_node).path)

(* ------------------------------------------------------------------ C5 *)
\* C5 as stated: for every Place p, blocked or not, the search from p to p
\* returns [p] with cost 0.
C5_Original ==
  (path_attempted /\ start_node # None /\ start_node = goal_node) =>
    (current_path = <<start_node>> /\ path_cost = 0)

\* C5 amended: for every Place p that is not blocked, the search from p to p
\* returns [p] with cost 0, whatever the weights and the other blocked
\* Places and Roads.
C5_Reflexive ==
  (path_attempted /\ start_node # None /\ start_node = goal_node
     /\ start_node \notin blocked_nodes) =>
    (current_path = <<start_node>> /\ path_cost = 0)

\* a search from a Place to itself on a map with another Place blocked
C5_Witness ==
  /\ path_attempted
  /\ start_node # None
  /\ start_node = goal_node
  /\ start_node \notin blocked_nodes
  /\ blocked_nodes # {}
  /\ current_path = <<start_node>>

(* ------------------------------------------------------------------ C9 *)
\* C9: a step that runs the search and stores its result changes neither the
\* weights nor the blocked Places nor the blocked Roads, whether a path was
\* found or not.
C9_SearchLeavesGraph ==
  [][ path_attempted' => UNCHANGED graph_vars ]_vars

\* a search has run on an edited map and found nothing
C9_Witness ==
  /\ Computed
  /\ edits > 0
  /\ current_path = NonePath
  /\ path_cost = NoneCost

(* ----------------------------------------------------------------- C10 *)
RECURSIVE IncreaseRouteFrom(_, _, _)
IncreaseRouteFrom(w, route, i) ==
  IF i >= Len(route) THEN w
  ELSE IncreaseRouteFrom(IncreaseWeight(w, <<route[i], route[i + 1]>>), route, i + 1)

\* one traffic click on every Road of the route
IncreaseRoute(w, route) == IncreaseRouteFrom(w, route, 1)

\* start and goal are joined by exactly one route and the search has returned it
UniqueRoute ==
  /\ Found
  /\ start_node # goal_node
  /\ Cardinality(SimpleRoutes(CurrentGraph, start_node, goal_node)) = 1

AfterIncrease ==
  astar(Graph(IncreaseRoute(weights, current_path), blocked_nodes, blocked_edges),
        start_node, goal_node)

\* C10 as stated: with a unique route, raising every Road on it by d never
\* lowers the returned cost and raises it by exactly d when the same route
\* is returned (d is one traffic click, TRAFFIC_STEP).
C10_Original ==
  UniqueRoute =>
    /\ AfterIncrease.cost >= path_cost
    /\ AfterIncrease.path = current_path =>
         AfterIncrease.cost = path_cost + TRAFFIC_STEP

\* C10 amended: with a unique route, raising every Road on it by d never
\* lowers the returned cost and raises it by exactly d times the number of
\* Roads on the route when the same route is returned.
C10_RaisedByRoads ==
  UniqueRoute =>
    /\ AfterIncrease.cost >= path_cost
    /\ AfterIncrease.path = current_path =>
         AfterIncrease.cost = path_cost + TRAFFIC_STEP * (Len(current_path) - 1)

\* a unique route of two or more Roads has been returned
C10_Witness ==
  /\ UniqueRoute
  /\ Len(current_path) >= 3
  /\ AfterIncrease.path = current_path

(* ------------------------------------------------------------------ C6 *)
Max(a, b) == IF a >= b THEN a ELSE b

\* C6: a traffic click lowers a Road's weight to max(1, old - TRAFFIC_STEP)
\* or raises it to max(1, old + TRAFFIC_STEP), and after any sequence of
\* clicks every Road's weight is at least 1.
C6_ClampedAdjust ==
  /\ [](\A e \in DOMAIN weights : weights[e] >= 1)
  /\ [][ \A e \in DOMAIN weights :
           /\ weights'[e] < weights[e] => weights'[e] = Max(1, weights[e] - TRAFFIC_STEP)
           /\ weights'[e] > weights[e] => weights'[e] = Max(1, weights[e] + TRAFFIC_STEP) ]_vars

\* a Road whose weight has been lowered until the limit of 1 applied
C6_Witness ==
  \E e \in DOMAIN weights :
    /\ weights[e] = 1
    /\ InitialWeights[e] > 1
    /\ InitialWeights[e] - edits * TRAFFIC_STEP < 1

(* ------------------------------------------------------------------ C7 *)
\* the entries of dict d that an operation turned into another value in d2
Changed(d, d2) == {k \in DOMAIN d : d2[k] # d[k]}

\* C7: every stored weight and every blocked-Road flag is keyed by the
\* ordered pair, one per Road, and naming a Road as (a, b) or as (b, a) in a
\* weight adjustment or a block toggle changes the same single entry.
C7_Canonical ==
  /\ \A k \in DOMAIN weights : StrLess(k[1], k[2]) /\ <<k[2], k[1]>> \notin DOMAIN weights
  /\ \A k \in blocked_edges : StrLess(k[1], k[2])
  /\ \A a \in Places : \A i \in 1..Len(adjacency[a]) :
       LET b == adjacency[a][i]
       IN  /\ Cardinality({k \in DOMAIN weights : k \in {<<a, b>>, <<b, a>>}}) = 1
           /\ IncreaseWeight(weights, <<a, b>>) = IncreaseWeight(weights, <<b, a>>)
           /\ DecreaseWeight(weights, <<a, b>>) = DecreaseWeight(weights, <<b, a>>)
           /\ DOMAIN IncreaseWeight(weights, <<a, b>>) = DOMAIN weights
           /\ Changed(weights, IncreaseWeight(weights, <<b, a>>)) = {SortedEdge(a, b)}
           /\ Toggle(blocked_edges, SortedEdge(a, b)) = Toggle(blocked_edges, SortedEdge(b, a))

\* a Road's weight has been adjusted, or a Road has been blocked
C7_Witness ==
  /\ edits > 0
  /\ \/ Changed(InitialWeights, weights) # {}
     \/ blocked_edges # {}
  /\ \E k \in Changed(InitialWeights, weights) \cup blocked_edges :
       IncreaseWeight(weights, <<k[2], k[1]>>)[k] = weights[k] + TRAFFIC_STEP

(* ------------------------------------------------------------------ C8 *)
\* C8: in every search the order by (f, g, Place id) tells any two entries
\* of the open list apart, so each pop is decided by the graph and the
\* arguments alone; whichever least entry a pop takes, the search returns
\* the one result astar has for that graph, start and goal.
C8_Deterministic ==
  /\ \A a, b \in frame.open_list : a # b => (EntryLess(a, b) \/ EntryLess(b, a))
  /\ path_attempted =>
       /\ current_path = astar(CurrentGraph, start_node, goal_node).path
       /\ path_cost = astar(CurrentGraph, start_node, goal_node).cost

\* two entries of the open list with the same f and the same g, for
\* different Places: the Place id decides which is popped first
C8_Witness ==
  /\ frame.status = "loop"
  /\ \E a, b \in frame.open_list :
       a[3] # b[3] /\ a[1] = b[1] /\ a[2] = b[2]
       /\ \A o \in frame.open_list : o[1] >= a[1]

(* ----------------------------------------------------------------- C11 *)
\* C11: in the main loop the stored result is never stale: every event that
\* changes start, goal, a weight or a blocked set sets current_path and
\* path_cost to None, and whenever current_path is not None it is, with
\* path_cost, what astar(start_node, goal_node) returns on the current graph.
C11_NeverStale ==
  /\ [](current_path # NonePath =>
          /\ current_path = astar(CurrentGraph, start_node, goal_node).path
          /\ path_cost = astar(CurrentGraph, start_node, goal_node).cost)
  /\ [][ (<<graph_vars, start_node, goal_node>>' # <<graph_vars, start_node, goal_node>>) =>
           (current_path' = NonePath /\ path_cost' = NoneCost) ]_vars

\* a result stored for an edited map that differs from the result for the
\* map as it was before the edit
C11_Witness ==
  /\ Found
  /\ edits > 0
  /\ current_path # astar(Graph(InitialWeights, {}, {}), start_node, goal_node).path

(* ----------------------------------------------------------------- C12 *)
\* the entry a pass through the while loop has popped
PoppedEntry == CHOOSE e \in frame.open_list : e \notin frame'.open_list

\* the pass through the loop from frame to frame' finalizes a Place: it
\* pops an entry that is not stale
Finalizes ==
  /\ frame.status = "loop"
  /\ frame.open_list # {}
  /\ frame'.status \in {"loop", "found"}
  /\ PoppedEntry[2] <= frame.g_score[PoppedEntry[3]]

\* the least cost of a route from start_node to n over unblocked Places and Roads
LeastCostTo(n) ==
  Least({RouteWeight(CurrentGraph, r) : r \in SimpleRoutes(CurrentGraph, start_node, n)})

\* C12, first part: a Place is finalized at most once, and a closed Place is
\* never re-opened nor given a new parent.
C12_FinalizedOnce ==
  [][ frame.status = "loop" =>
        /\ Finalizes => PoppedEntry[3] \notin frame.closed_set
        /\ Finalizes => PoppedEntry[3] \notin DOMAIN frame.came_from
        /\ frame.closed_set \subseteq frame'.closed_set
        /\ \A n \in DOMAIN frame.came_from :
             n \in DOMAIN frame'.came_from /\ frame'.came_from[n] = frame.came_from[n]
        /\ \A e \in frame'.open_list \ frame.open_list : e[3] \notin frame.closed_set ]_vars

\* C12, second part: at the moment a Place is finalized its recorded g is the
\* least cost from start to it over unblocked Places and Roads.
C12_FinalizedAtLeastCost ==
  [][ Finalizes => frame.g_score[PoppedEntry[3]] = LeastCostTo(PoppedEntry[3]) ]_vars

\* C12: both parts.
C12_Finalized ==
  /\ C12_FinalizedOnce
  /\ C12_FinalizedAtLeastCost

(* ----------------------------------------------------------------- C13 *)
\* an entry of the open list that a cheaper insertion of its Place has made stale
StaleEntries(fr) ==
  {e \in fr.open_list : e[2] > fr.g_score[e[3]]}

\* C13: every call of astar terminates: it returns a route after popping the goal,
\* or it returns None, None after the open list has become empty (or by an early
\* return); it never stays in the while loop forever.
C13_Terminates ==
  /\ <>(frame.status \in {"found", "notfound"})
  /\ <>path_attempted
  /\ [][ frame.status = "loop" /\ frame'.status = "found" =>
           /\ \E item \in MinEntries(frame.open_list) : item[3] = goal_node
           /\ frame'.path # NonePath ]_vars
  /\ [][ frame.status = "loop" /\ frame'.status = "notfound" =>
           /\ frame.open_list = {}
           /\ frame'.path = NonePath ]_vars

\* a search that re-inserted a Place at a lower cost, left the stale entry behind,
\* and has returned a route
C13_Witness ==
  /\ frame.status = "found"
  /\ StaleEntries(frame) # {}
  /\ Cardinality(frame.closed_set) >= 3

====
